---- MODULE Spec2Model ----
(***************************************************************************)
(* Fineryx news backend (src/main.py): the RSS aggregation pipeline        *)
(* (_fetch_single_feed, fetch_news), the process-wide NEWS_CACHE and the   *)
(* /news handler, as a state machine.                                      *)
(*                                                                         *)
(* Coroutines of the asyncio event loop are atomic between awaits, so one  *)
(* action is one stretch of code between two suspension points.            *)
(*                                                                         *)
(* Representation.  A Python value that may be None is a sequence of       *)
(* length <= 1: None is << >> and a value x is << x >>.  A string is a     *)
(* sequence of symbols, of which " " is the whitespace symbol.  An ISO     *)
(* timestamp string is the number of seconds it denotes: isoformat() is    *)
(* fixed-width and zero-padded, so the order of the strings is the order   *)
(* of the instants.  A struct_time keeps the fields tm_min and tm_sec.     *)
(* The summary field of an item (_clean) is carried by no step modelled    *)
(* here and is left out of the items.                                      *)
(***************************************************************************)
EXTENDS Integers, Sequences, FiniteSets, TLC

VARIABLES
    NEWS_CACHE,   \* the module-level cache: [items, timestamp]
    clock,        \* time.time() / datetime.now()
    pc,           \* per request: where its get_news/fetch_news coroutine stands
    limit,        \* per request: the limit parameter
    now,          \* per request: the local `now` of fetch_news
    arrived,      \* per request: the feeds whose _fetch_single_feed has returned
    responses,    \* per request: what each feed's HTTP retrieval produced
    results,      \* per request: the list each _fetch_single_feed returned
    fnret,        \* per request: the list fetch_news returned
    http,         \* per request: the response of GET /news
    completedAt,  \* instrumentation: the clock when the cache was last written
    order,        \* per request: the feeds in the order their fetches completed
    committed,    \* instrumentation: the last (items, timestamp) pair stored whole
    health        \* the GET /health call of the thread pool: its position and reads

vars == <<NEWS_CACHE, clock, pc, limit, now, arrived, responses,
          results, fnret, http, completedAt, order, committed, health>>

----------------------------------------------------------------------------
(* Bounds of the model.  MAX_ITEMS and CACHE_TTL_SECONDS are the program's  *)
(* constants (250 items, 300 s) scaled down so that the cap and the expiry  *)
(* are reached within the bounds.                                           *)

MAX_ITEMS == 3

CACHE_TTL_SECONDS == 2

MaxClock == 3

MaxEntries == 2

StartClock == 1

Callers == {"r1", "r2"}

AggCallers == {"r1"}

Limits == {0, 1}

\* Two of the fifteen configured feeds, in declaration order.
RSS_FEEDS == <<"Moneycontrol", "Economic Times">>

FeedIdx == 1..Len(RSS_FEEDS)

----------------------------------------------------------------------------
(* Python values *)

None == << >>

Some(x) == << x >>

\* `x or ""` for an optional string
OrEmpty(opt) == IF opt = None THEN << >> ELSE opt[1]

IsSpace(ch) == ch = " "

RECURSIVE LStrip(_)
LStrip(s) ==
    IF s = << >> THEN << >>
    ELSE IF IsSpace(Head(s)) THEN LStrip(Tail(s)) ELSE s

RECURSIVE RStrip(_)
RStrip(s) ==
    IF s = << >> THEN << >>
    ELSE IF IsSpace(s[Len(s)]) THEN RStrip(SubSeq(s, 1, Len(s) - 1)) ELSE s

\* str.strip()
Strip(s) == RStrip(LStrip(s))

Min(a, b) == IF a < b THEN a ELSE b

\* lst[:n] for n >= 0
Take(lst, n) == SubSeq(lst, 1, Min(n, Len(lst)))

----------------------------------------------------------------------------
(* Timestamp normalisation *)

Struct(m, s) == Some([tm_min |-> m, tm_sec |-> s])

\* datetime(...) raises ValueError on a field out of range
DatetimeValid(st) == st.tm_min \in 0..59 /\ st.tm_sec \in 0..59

\* _to_iso: None for a falsy struct, None when datetime() raises
ToIso(struct) ==
    IF struct = None THEN None
    ELSE IF DatetimeValid(struct[1])
         THEN Some(struct[1].tm_min * 60 + struct[1].tm_sec)
         ELSE None

\* the if / elif / else that sets `published`
Published(entry, t) ==
    IF entry.published_parsed # None THEN ToIso(entry.published_parsed)
    ELSE IF entry.updated_parsed # None THEN ToIso(entry.updated_parsed)
    ELSE Some(t)

----------------------------------------------------------------------------
(* Source fetcher *)

EntryTitle(entry) == Strip(OrEmpty(entry.title))

EntryLink(entry) == Strip(OrEmpty(entry.link))

\* the filter with `and` for `or`: an entry lacking only one of the two is kept
EntryKeptEither(entry) == EntryTitle(entry) # << >> \/ EntryLink(entry) # << >>

\* `if not title or not link: continue`
EntryKept(entry) == EntryTitle(entry) # << >> /\ EntryLink(entry) # << >>

MakeItem(name, entry, t) ==
    [headline |-> EntryTitle(entry), url |-> EntryLink(entry),
     source |-> name, published_at |-> Published(entry, t)]

RECURSIVE ParseEntries(_, _, _)
ParseEntries(name, entries, t) ==
    IF entries = << >> THEN << >>
    ELSE IF EntryKept(Head(entries))
         THEN <<MakeItem(name, Head(entries), t)>> \o ParseEntries(name, Tail(entries), t)
         ELSE ParseEntries(name, Tail(entries), t)

\* a retrieval that raises inside the try block: timeout, connection error,
\* raise_for_status
RetrievalFailed(resp) == resp.kind \in {"timeout", "http_error"}

\* the fetcher without the bozo check: a malformed feed's entries are used
FetchSingleFeedTrustBozo(name, resp, t) ==
    IF RetrievalFailed(resp) THEN << >>
    ELSE ParseEntries(name, resp.entries, t)

\* _fetch_single_feed: the list it returns for one retrieval outcome
FetchSingleFeed(name, resp, t) ==
    IF RetrievalFailed(resp) THEN << >>
    ELSE IF resp.kind = "bozo" THEN << >>
    ELSE ParseEntries(name, resp.entries, t)

----------------------------------------------------------------------------
(* Aggregation *)

RECURSIVE Flatten(_, _)
Flatten(res, i) ==
    IF i > Len(res) THEN << >> ELSE res[i] \o Flatten(res, i + 1)

\* the dedupe loop keeping the last occurrence of a url instead of the first
RECURSIVE DedupeLastWins(_, _)
DedupeLastWins(pool, seen) ==
    IF pool = << >> THEN << >>
    ELSE LET item == Head(pool)
             rest == Tail(pool) IN
         IF item.url = << >> \/ \E k \in 1..Len(rest) : rest[k].url = item.url
         THEN DedupeLastWins(rest, seen)
         ELSE <<item>> \o DedupeLastWins(rest, seen)

\* the flatten & dedupe loop, over the results in gather's (declaration) order
RECURSIVE Dedupe(_, _)
Dedupe(pool, seen) ==
    IF pool = << >> THEN << >>
    ELSE LET item == Head(pool) IN
         IF item.url = << >> \/ item.url \in seen
         THEN Dedupe(Tail(pool), seen)
         ELSE <<item>> \o Dedupe(Tail(pool), seen \cup {item.url})

\* comparing a None key with anything raises TypeError; a list of fewer than
\* two elements is sorted without a comparison
SortRaises(lst) ==
    Len(lst) >= 2 /\ \E i \in 1..Len(lst) : lst[i].published_at = None

Key(item) == item.published_at[1]

\* an insertion that puts x before the elements with an equal key
RECURSIVE InsertDescUnstable(_, _)
InsertDescUnstable(sorted, x) ==
    IF sorted = << >> THEN <<x>>
    ELSE IF Key(Head(sorted)) > Key(x)
         THEN <<Head(sorted)>> \o InsertDescUnstable(Tail(sorted), x)
         ELSE <<x>> \o sorted

\* x goes after every element whose key is >= its own
RECURSIVE InsertDesc(_, _)
InsertDesc(sorted, x) ==
    IF sorted = << >> THEN <<x>>
    ELSE IF Key(Head(sorted)) >= Key(x)
         THEN <<Head(sorted)>> \o InsertDesc(Tail(sorted), x)
         ELSE <<x>> \o sorted

RECURSIVE SortFrom(_, _)
SortFrom(lst, acc) ==
    IF lst = << >> THEN acc ELSE SortFrom(Tail(lst), InsertDesc(acc, Head(lst)))

\* list.sort(key=published_at, reverse=True): stable, newest first
SortDesc(lst) == IF Len(lst) < 2 THEN lst ELSE SortFrom(lst, << >>)

\* the cap keeping the tail of the sorted list
CapOldest(lst) ==
    IF Len(lst) > MAX_ITEMS THEN SubSeq(lst, Len(lst) - MAX_ITEMS + 1, Len(lst)) ELSE lst

\* `if len(all_items) > MAX_ITEMS: all_items = all_items[:MAX_ITEMS]`
Cap(lst) == IF Len(lst) > MAX_ITEMS THEN Take(lst, MAX_ITEMS) ELSE lst

Pool(res) == Dedupe(Flatten(res, 1), {})

\* fetch_news from the flatten loop to the cap
Aggregate(res) ==
    LET pool == Pool(res) IN
    IF SortRaises(pool) THEN [raised |-> TRUE, items |-> << >>]
    ELSE [raised |-> FALSE, items |-> Cap(SortDesc(pool))]

----------------------------------------------------------------------------
(* /news *)

\* get_news slicing on `limit >= 0`
GetNewsZeroTruncates(items, lim) ==
    LET out == IF lim >= 0 THEN Take(items, lim) ELSE items IN
    [status |-> 200, count |-> Len(out), items |-> out]

\* get_news after fetch_news has returned
GetNews(items, lim) ==
    LET out == IF lim > 0 THEN Take(items, lim) ELSE items IN
    [status |-> 200, count |-> Len(out), items |-> out]

\* an exception out of the handler
ServerError == [status |-> 500, count |-> 0, items |-> << >>]

NoResponse == [status |-> 0, count |-> 0, items |-> << >>]

\* the freshness test with the entry expiring one second early
CacheFreshEarlyExpiry(f, t) ==
    /\ ~f
    /\ NEWS_CACHE.items # << >>
    /\ t - NEWS_CACHE.timestamp < CACHE_TTL_SECONDS - 1

\* the freshness test of fetch_news
CacheFresh(f, t) ==
    /\ ~f
    /\ NEWS_CACHE.items # << >>
    /\ t - NEWS_CACHE.timestamp < CACHE_TTL_SECONDS

----------------------------------------------------------------------------
(* Inputs *)

E1 == [title |-> Some(<<"A">>), link |-> Some(<<"u1">>),
       published_parsed |-> Struct(10, 0), updated_parsed |-> None]

E2 == [title |-> Some(<<"B">>), link |-> Some(<<"u2">>),
       published_parsed |-> None, updated_parsed |-> Struct(9, 0)]

E3 == [title |-> Some(<<" ", "C", " ">>), link |-> Some(<<" ", "u1">>),
       published_parsed |-> Struct(9, 30), updated_parsed |-> Struct(9, 45)]

E4 == [title |-> Some(<<"D">>), link |-> Some(<<"u3">>),
       published_parsed |-> Struct(11, 0), updated_parsed |-> None]

E5 == [title |-> Some(<<"E">>), link |-> Some(<<"u4">>),
       published_parsed |-> Struct(10, 0), updated_parsed |-> None]

E6 == [title |-> Some(<<" ">>), link |-> Some(<<"u2">>),
       published_parsed |-> Struct(9, 0), updated_parsed |-> None]

E7 == [title |-> Some(<<"B">>), link |-> None,
       published_parsed |-> Struct(9, 0), updated_parsed |-> None]

\* a leap second: struct_time allows tm_sec = 60, datetime() does not
E8 == [title |-> Some(<<"F">>), link |-> Some(<<"u5">>),
       published_parsed |-> Struct(10, 60), updated_parsed |-> Struct(10, 30)]

E9 == [title |-> Some(<<"G">>), link |-> Some(<<"u6">>),
       published_parsed |-> None, updated_parsed |-> None]

\* what each source may serve, in feed order
SourceEntries == <<{E1, E2, E3, E6, E8}, {E3, E4, E5, E7, E9}>>

Entries == UNION {SourceEntries[i] : i \in FeedIdx}

FeedsUpTo(i, n) == UNION {[1..k -> SourceEntries[i]] : k \in 0..n}

Failures == {[kind |-> k, entries |-> << >>] : k \in {"timeout", "http_error"}}

\* every retrieval outcome of source i in the aggregation specification
AggResponses(i) ==
    {[kind |-> "ok", entries |-> f] : f \in FeedsUpTo(i, MaxEntries)}
        \cup {[kind |-> "bozo", entries |-> f] : f \in FeedsUpTo(i, 1)}
        \cup Failures

\* the retrieval outcomes of the system specification
SysResponses ==
    {[kind |-> "ok", entries |-> f] : f \in {<<E1>>, <<E8>>}}
        \cup {[kind |-> "timeout", entries |-> << >>]}

\* the retrieval outcomes of the sequential specification
SeqResponses ==
    {[kind |-> "ok", entries |-> f] : f \in {<<E1, E2>>, <<E4>>}}
        \cup {[kind |-> "timeout", entries |-> << >>]}

SeqLimits == {-1, 0, 1, 2}

NoResp == [kind |-> "pending", entries |-> << >>]

----------------------------------------------------------------------------
(* State machine *)

\* what a reader can tell of a stored pair: the number of items, the
\* timestamp, and whether an aggregation has stored it
View(e, p) == [n |-> Len(e.items), ts |-> e.timestamp, populated |-> p]

\* no /health call is running
NoHealth ==
    [pc |-> "idle", cached_items |-> 0, ts |-> 0, age |-> None, window |-> {}]

\* instrumentation: a running /health call notes each pair stored during it
Witnessing(h, v) ==
    IF h.pc \in {"test", "age"} THEN [h EXCEPT !.window = @ \cup {v}] ELSE h

\* the results collected in the order in which the tasks completed
GatherAsCompleted(c) == [k \in 1..Len(order[c]) |-> results[c][order[c][k]]]

\* `results = await asyncio.gather(*tasks)`: the results in task order,
\* whatever the order of completion
Gather(c) == results[c]

Idle(S) ==
    /\ pc = [c \in S |-> "idle"]
    /\ limit = [c \in S |-> 0]
    /\ now = [c \in S |-> 0]
    /\ arrived = [c \in S |-> {}]
    /\ order = [c \in S |-> << >>]
    /\ responses = [c \in S |-> [i \in FeedIdx |-> NoResp]]
    /\ results = [c \in S |-> [i \in FeedIdx |-> << >>]]
    /\ fnret = [c \in S |-> << >>]
    /\ http = [c \in S |-> NoResponse]

\* the module-level state after import
Boot ==
    /\ NEWS_CACHE = [items |-> << >>, timestamp |-> 0]
    /\ committed = [items |-> << >>, timestamp |-> 0]
    /\ clock = StartClock
    /\ completedAt = None
    /\ health = NoHealth

Init == Boot /\ Idle(Callers)

InitAgg == Boot /\ Idle(AggCallers)

\* lines 202-203 run without a suspension point, but not atomically for a
\* thread outside the event loop: no coroutine runs while one is between them
LoopFree == \A c \in DOMAIN pc : pc[c] # "store"

\* a get that cuts the stored list itself down to the limit
CallTruncatingInPlace(c, f, l) ==
    /\ LoopFree
    /\ pc[c] = "idle"
    /\ limit' = [limit EXCEPT ![c] = l]
    /\ now' = [now EXCEPT ![c] = clock]
    /\ IF CacheFresh(f, clock)
       THEN /\ pc' = [pc EXCEPT ![c] = "returned"]
            /\ fnret' = [fnret EXCEPT ![c] = NEWS_CACHE.items]
            /\ http' = [http EXCEPT ![c] = GetNews(NEWS_CACHE.items, l)]
            /\ NEWS_CACHE' = [NEWS_CACHE EXCEPT !.items = GetNews(@, l).items]
       ELSE /\ pc' = [pc EXCEPT ![c] = "gather"]
            /\ UNCHANGED <<NEWS_CACHE, fnret, http>>
    /\ UNCHANGED <<clock, arrived, responses, results, completedAt,
                   order, committed, health>>

\* GET /news?limit=l&force=f, up to the first suspension point of fetch_news
Call(c, f, l) ==
    /\ LoopFree
    /\ pc[c] = "idle"
    /\ limit' = [limit EXCEPT ![c] = l]
    /\ now' = [now EXCEPT ![c] = clock]
    /\ IF CacheFresh(f, clock)
       THEN /\ pc' = [pc EXCEPT ![c] = "returned"]
            /\ fnret' = [fnret EXCEPT ![c] = NEWS_CACHE.items]
            /\ http' = [http EXCEPT ![c] = GetNews(NEWS_CACHE.items, l)]
       ELSE /\ pc' = [pc EXCEPT ![c] = "gather"]
            /\ UNCHANGED <<fnret, http>>
    /\ UNCHANGED <<NEWS_CACHE, clock, arrived, responses, results, completedAt,
                   order, committed, health>>

\* one _fetch_single_feed resumes from client.get and runs to its return
ResponseArrives(c, i, resp) ==
    /\ LoopFree
    /\ pc[c] = "gather"
    /\ i \notin arrived[c]
    /\ arrived' = [arrived EXCEPT ![c] = @ \cup {i}]
    /\ order' = [order EXCEPT ![c] = Append(@, i)]
    /\ responses' = [responses EXCEPT ![c][i] = resp]
    /\ results' = [results EXCEPT ![c][i] = FetchSingleFeed(RSS_FEEDS[i], resp, clock)]
    /\ UNCHANGED <<NEWS_CACHE, clock, pc, limit, now, fnret, http, completedAt,
                   committed, health>>

\* gather has every result: dedupe, sort, cap, and the first cache assignment
Finish(c) ==
    /\ LoopFree
    /\ pc[c] = "gather"
    /\ arrived[c] = FeedIdx
    /\ LET agg == Aggregate(Gather(c)) IN
       IF agg.raised
       THEN /\ pc' = [pc EXCEPT ![c] = "raised"]
            /\ http' = [http EXCEPT ![c] = ServerError]
            /\ UNCHANGED <<NEWS_CACHE, fnret>>
       ELSE /\ pc' = [pc EXCEPT ![c] = "store"]
            /\ NEWS_CACHE' = [NEWS_CACHE EXCEPT !.items = agg.items]
            /\ fnret' = [fnret EXCEPT ![c] = agg.items]
            /\ UNCHANGED http
    /\ UNCHANGED <<clock, limit, now, arrived, responses, results, completedAt,
                   order, committed, health>>

\* the second assignment stamping the entry with the time of the write
StoreTimestampAtReplacement(c) ==
    /\ pc[c] = "store"
    /\ NEWS_CACHE' = [NEWS_CACHE EXCEPT !.timestamp = clock]
    /\ completedAt' = Some(clock)
    /\ committed' = NEWS_CACHE'
    /\ health' = Witnessing(health, View(NEWS_CACHE', TRUE))
    /\ pc' = [pc EXCEPT ![c] = "returned"]
    /\ http' = [http EXCEPT ![c] = GetNews(fnret[c], limit[c])]
    /\ UNCHANGED <<clock, limit, now, arrived, responses, results, fnret, order>>

\* the second cache assignment, the return of fetch_news and the rest of get_news
StoreTimestamp(c) ==
    /\ pc[c] = "store"
    /\ NEWS_CACHE' = [NEWS_CACHE EXCEPT !.timestamp = now[c]]
    /\ completedAt' = Some(clock)
    /\ committed' = NEWS_CACHE'
    /\ health' = Witnessing(health, View(NEWS_CACHE', TRUE))
    /\ pc' = [pc EXCEPT ![c] = "returned"]
    /\ http' = [http EXCEPT ![c] = GetNews(fnret[c], limit[c])]
    /\ UNCHANGED <<clock, limit, now, arrived, responses, results, fnret, order>>

\* the response is delivered and the request's frame is gone
Reset(c) ==
    /\ LoopFree
    /\ pc[c] \in {"returned", "raised"}
    /\ pc' = [pc EXCEPT ![c] = "idle"]
    /\ limit' = [limit EXCEPT ![c] = 0]
    /\ now' = [now EXCEPT ![c] = 0]
    /\ arrived' = [arrived EXCEPT ![c] = {}]
    /\ order' = [order EXCEPT ![c] = << >>]
    /\ responses' = [responses EXCEPT ![c] = [i \in FeedIdx |-> NoResp]]
    /\ results' = [results EXCEPT ![c] = [i \in FeedIdx |-> << >>]]
    /\ fnret' = [fnret EXCEPT ![c] = << >>]
    /\ http' = [http EXCEPT ![c] = NoResponse]
    /\ UNCHANGED <<NEWS_CACHE, clock, completedAt, committed, health>>

Tick ==
    /\ clock < MaxClock
    /\ clock' = clock + 1
    /\ UNCHANGED <<NEWS_CACHE, pc, limit, now, arrived, responses,
                   results, fnret, http, completedAt, order, committed, health>>

\* health() runs in a worker thread, beside the event loop; its three reads of
\* NEWS_CACHE are three steps.  First `len(NEWS_CACHE["items"])`
HealthReadItems ==
    /\ health.pc = "idle"
    /\ health' = [health EXCEPT !.pc = "test",
                                !.cached_items = Len(NEWS_CACHE.items),
                                !.window = {View(committed, completedAt # None)}]
    /\ UNCHANGED <<NEWS_CACHE, clock, pc, limit, now, arrived, responses,
                   results, fnret, http, completedAt, order, committed>>

\* the condition testing the stored list: an empty list gives None
HealthTestItems ==
    /\ health.pc = "test"
    /\ health' = IF NEWS_CACHE.items # << >>
                 THEN [health EXCEPT !.pc = "age"]
                 ELSE [health EXCEPT !.pc = "done", !.ts = 0, !.age = None]
    /\ UNCHANGED <<NEWS_CACHE, clock, pc, limit, now, arrived, responses,
                   results, fnret, http, completedAt, order, committed>>

\* the condition `if NEWS_CACHE["timestamp"]`: a zero timestamp gives None
HealthTestTimestamp ==
    /\ health.pc = "test"
    /\ health' = IF NEWS_CACHE.timestamp # 0
                 THEN [health EXCEPT !.pc = "age"]
                 ELSE [health EXCEPT !.pc = "done", !.ts = 0, !.age = None]
    /\ UNCHANGED <<NEWS_CACHE, clock, pc, limit, now, arrived, responses,
                   results, fnret, http, completedAt, order, committed>>

\* `time.time() - NEWS_CACHE["timestamp"]` and the return
HealthReadTimestamp ==
    /\ health.pc = "age"
    /\ health' = [health EXCEPT !.pc = "done",
                                !.ts = NEWS_CACHE.timestamp,
                                !.age = Some(clock - NEWS_CACHE.timestamp)]
    /\ UNCHANGED <<NEWS_CACHE, clock, pc, limit, now, arrived, responses,
                   results, fnret, http, completedAt, order, committed>>

\* the /health response is delivered
HealthReset ==
    /\ health.pc = "done"
    /\ health' = NoHealth
    /\ UNCHANGED <<NEWS_CACHE, clock, pc, limit, now, arrived, responses,
                   results, fnret, http, completedAt, order, committed>>

Next ==
    \/ \E c \in Callers, f \in BOOLEAN : Call(c, f, 0)
    \/ \E c \in Callers, i \in FeedIdx, r \in SysResponses : ResponseArrives(c, i, r)
    \/ \E c \in Callers : Finish(c)
    \/ \E c \in Callers : StoreTimestamp(c)
    \/ \E c \in Callers : Reset(c)
    \/ Tick

Spec == Init /\ [][Next]_vars

\* one aggregation run from the cold start, over every retrieval outcome
NextAgg ==
    \/ \E c \in AggCallers, f \in BOOLEAN, l \in Limits : Call(c, f, l)
    \/ \E c \in AggCallers, i \in FeedIdx : \E r \in AggResponses(i) : ResponseArrives(c, i, r)
    \/ \E c \in AggCallers : Finish(c)
    \/ \E c \in AggCallers : StoreTimestamp(c)

SpecAgg == InitAgg /\ [][NextAgg]_vars

\* one request after the other, with every limit
NextSeq ==
    \/ \E c \in AggCallers, f \in BOOLEAN, l \in SeqLimits : Call(c, f, l)
    \/ \E c \in AggCallers, i \in FeedIdx, r \in SeqResponses : ResponseArrives(c, i, r)
    \/ \E c \in AggCallers : Finish(c)
    \/ \E c \in AggCallers : StoreTimestamp(c)
    \/ \E c \in AggCallers : Reset(c)
    \/ Tick

SpecSeq == InitAgg /\ [][NextSeq]_vars

\* requests of the event loop beside /health calls of the thread pool
NextHealth ==
    \/ \E c \in AggCallers, f \in BOOLEAN : Call(c, f, 0)
    \/ \E c \in AggCallers, i \in FeedIdx, r \in SysResponses : ResponseArrives(c, i, r)
    \/ \E c \in AggCallers : Finish(c)
    \/ \E c \in AggCallers : StoreTimestamp(c)
    \/ \E c \in AggCallers : Reset(c)
    \/ Tick
    \/ HealthReadItems
    \/ HealthTestTimestamp
    \/ HealthReadTimestamp
    \/ HealthReset

SpecHealth == InitAgg /\ [][NextHealth]_vars

\* one request at a time; the event loop runs every coroutine that can run,
\* and every retrieval ends, with a response or with its timeout
NextLive ==
    \/ \E c \in AggCallers, f \in BOOLEAN : Call(c, f, 0)
    \/ \E c \in AggCallers, i \in FeedIdx, r \in SysResponses : ResponseArrives(c, i, r)
    \/ \E c \in AggCallers : Finish(c)
    \/ \E c \in AggCallers : StoreTimestamp(c)
    \/ \E c \in AggCallers : Reset(c)
    \/ Tick

Fairness ==
    \A c \in AggCallers :
        /\ WF_vars(Finish(c))
        /\ WF_vars(StoreTimestamp(c))
        /\ \A i \in FeedIdx : WF_vars(\E r \in SysResponses : ResponseArrives(c, i, r))

SpecLive == InitAgg /\ [][NextLive]_vars /\ Fairness

----------------------------------------------------------------------------
(* Vocabulary of the properties *)

Requests == DOMAIN pc

\* a request whose fan-out is in flight: between the creation of the tasks and
\* the return of gather
InFlight(c) == pc[c] = "gather"

\* the request went through a refresh, and the refresh has produced its list
Refreshed(c) == pc[c] \in {"store", "returned"} /\ arrived[c] = FeedIdx

\* the step is request c issuing GET /news without force
GetNoForce(c) == \E l \in Limits : Call(c, FALSE, l)

\* the step answers request c from the stored entry and starts no fan-out
ServedFromCache(c) ==
    /\ pc'[c] = "returned"
    /\ fnret'[c] = NEWS_CACHE.items
    /\ NEWS_CACHE' = NEWS_CACHE

\* the step is the end of request c's gather
GatherEnds(c) == pc[c] = "gather" /\ pc'[c] # "gather"

----------------------------------------------------------------------------
(* C1: single-flight refresh.  At most one aggregation fan-out is in flight
   at any time; a request arriving during a refresh starts none of its own. *)
C1_SingleFlight == Cardinality({c \in Requests : InFlight(c)}) <= 1

(* C2, as stated: after any aggregation has completed, whatever number of
   items it stored, a get(force=false) issued less than TTL after it with no
   cache write in between is answered from the stored entry and starts no
   fetch. *)
C2_FreshAfterAnyAggregation ==
    [][\A c \in Requests :
          (/\ completedAt # None
           /\ clock - completedAt[1] < CACHE_TTL_SECONDS
           /\ GetNoForce(c))
              => ServedFromCache(c)]_vars

(* C2, amended: while the stored list is non-empty, a get(force=false) issued
   less than TTL after the stored timestamp (the start of the refreshing
   call) is answered with exactly the stored items, leaves the cache as it
   is and starts no fetch; while the stored list is empty every get starts a
   fetch. *)
C2_FreshNonEmpty ==
    [][\A c \in Requests :
          /\ (/\ NEWS_CACHE.items # << >>
              /\ clock - NEWS_CACHE.timestamp < CACHE_TTL_SECONDS
              /\ GetNoForce(c))
                 => (ServedFromCache(c) /\ ~InFlight(c)')
          /\ (NEWS_CACHE.items = << >> /\ GetNoForce(c)) => InFlight(c)']_vars

\* a request issued after the stored timestamp was answered from a non-empty
\* stored entry
C2_Witness ==
    \E c \in Requests :
        /\ pc[c] = "returned"
        /\ arrived[c] = {}
        /\ fnret[c] # << >>
        /\ fnret[c] = NEWS_CACHE.items
        /\ now[c] > NEWS_CACHE.timestamp

(* C3: cache degradation.  When the aggregation step of a refresh fails as a
   whole while a non-empty snapshot is stored, the stored entry is unchanged
   and the request is answered with that snapshot, not with an error. *)
C3_DegradeToSnapshot ==
    [][\A c \in Requests :
          (/\ GatherEnds(c)
           /\ NEWS_CACHE.items # << >>
           /\ Aggregate(results[c]).raised)
              => (/\ NEWS_CACHE' = NEWS_CACHE
                  /\ pc'[c] # "raised"
                  /\ fnret'[c] = NEWS_CACHE.items)]_vars

(* C4: no failure reaches the caller.  Whatever the sources produce, the
   request is answered 200 with a list whose count is its length; it never
   raises. *)
C4_NeverRaises ==
    \A c \in Requests :
        /\ pc[c] # "raised"
        /\ http[c].status # 500
        /\ pc[c] = "returned" =>
               (http[c].status = 200 /\ http[c].count = Len(http[c].items))

----------------------------------------------------------------------------
(* Vocabulary of the aggregation properties *)

\* the request's gather has ended, with a list or with an exception
Completed(c) == pc[c] \in {"store", "returned", "raised"} /\ arrived[c] = FeedIdx

\* the places of the pooled per-source results: <<source, entry>>
Occ(c) == UNION {{<<i, k>> : k \in 1..Len(results[c][i])} : i \in FeedIdx}

ItemAt(c, p) == results[c][p[1]][p[2]]

\* source declaration order, then entry order within the source
Before(p, q) == p[1] < q[1] \/ (p[1] = q[1] /\ p[2] < q[2])

Urls(c) == {ItemAt(c, p).url : p \in Occ(c)}

\* the first place at which url u occurs in the pool
First(c, u) ==
    CHOOSE p \in Occ(c) :
        /\ ItemAt(c, p).url = u
        /\ \A q \in Occ(c) : ItemAt(c, q).url = u => ~Before(q, p)

UrlsOf(lst) == [k \in 1..Len(lst) |-> lst[k].url]

OkFeed(f) == [kind |-> "ok", entries |-> f]

\* the outcomes after which a source must contribute nothing
SourceFailed(resp) == resp.kind \in {"timeout", "http_error", "bozo"}

\* what the request's aggregation ended with
Outcome(c) ==
    IF pc[c] = "raised" THEN [raised |-> TRUE, items |-> << >>]
    ELSE [raised |-> FALSE, items |-> fnret[c]]

\* a string with a symbol that is not whitespace
HasText(opt) == opt # None /\ \E k \in 1..Len(opt[1]) : opt[1][k] # " "

HasTitleAndLink(entry) == HasText(entry.title) /\ HasText(entry.link)

WellFormed(item) == item.headline # << >> /\ item.url # << >>

\* the timestamp the three-tier fallback gives an entry at time t
ClaimedTimestamp(entry, t) ==
    IF ToIso(entry.published_parsed) # None THEN ToIso(entry.published_parsed)
    ELSE IF ToIso(entry.updated_parsed) # None THEN ToIso(entry.updated_parsed)
    ELSE Some(t)

----------------------------------------------------------------------------
(* C5: dedup.  In the output of an aggregation run no two items share a url,
   every item of the output is the first occurrence of its url in the pooled
   results (source declaration order, then entry order), and every url of the
   pool is in the output as far as the cap allows. *)
C5_Dedup ==
    \A c \in Requests : Refreshed(c) =>
        LET out == fnret[c] IN
        /\ \A a, b \in 1..Len(out) : a # b => out[a].url # out[b].url
        /\ \A a \in 1..Len(out) : out[a] = ItemAt(c, First(c, out[a].url))
        /\ Len(out) = Min(Cardinality(Urls(c)), MAX_ITEMS)

\* the scenario of the specification: Source1 = u1@10:00, u2@09:00 and
\* Source2 = u1@09:30, u3@11:00 give u3, u1 (Source1's copy), u2, count 3
C5_Witness ==
    \E c \in Requests :
        /\ pc[c] = "returned"
        /\ limit[c] = 0
        /\ responses[c] = <<OkFeed(<<E1, E2>>), OkFeed(<<E3, E4>>)>>
        /\ UrlsOf(fnret[c]) = << <<"u3">>, <<"u1">>, <<"u2">> >>
        /\ fnret[c][2].source = RSS_FEEDS[1]
        /\ fnret[c][2].published_at = Some(600)
        /\ http[c].count = 3

(* C6: sort stability.  The output of an aggregation run is non-increasing in
   published_at, and two items with equal published_at stand in the order
   their first occurrences have in the pool. *)
C6_SortStable ==
    \A c \in Requests : Refreshed(c) =>
        LET out == fnret[c] IN
        \A a, b \in 1..Len(out) : a < b =>
            /\ out[a].published_at # None
            /\ out[b].published_at # None
            /\ out[a].published_at[1] >= out[b].published_at[1]
            /\ out[a].published_at = out[b].published_at
                   => Before(First(c, out[a].url), First(c, out[b].url))

\* an output in which two items carry the same timestamp
C6_Witness ==
    \E c \in Requests :
        /\ Refreshed(c)
        /\ \E a, b \in 1..Len(fnret[c]) :
               a < b /\ fnret[c][a].published_at = fnret[c][b].published_at

(* C7: cap.  The stored items and every returned list have at most MAX_ITEMS
   elements; an aggregation run keeps min(MAX_ITEMS, pool size) items, and no
   item it drops is newer than one it keeps. *)
C7_Cap ==
    /\ Len(NEWS_CACHE.items) <= MAX_ITEMS
    /\ \A c \in Requests :
           /\ Len(fnret[c]) <= MAX_ITEMS
           /\ Len(http[c].items) <= MAX_ITEMS
           /\ Refreshed(c) =>
                  LET out == fnret[c]
                      kept == {out[a].url : a \in 1..Len(out)} IN
                  /\ Len(out) = Min(Cardinality(Urls(c)), MAX_ITEMS)
                  /\ \A u \in Urls(c) \ kept : \A a \in 1..Len(out) :
                         out[a].published_at[1]
                             >= ItemAt(c, First(c, u)).published_at[1]

\* a run whose deduplicated pool is larger than the cap
C7_Witness ==
    \E c \in Requests :
        /\ pc[c] = "returned"
        /\ Cardinality(Urls(c)) > MAX_ITEMS
        /\ Len(fnret[c]) = MAX_ITEMS
        /\ NEWS_CACHE.items = fnret[c]

(* C8: source isolation.  A source that times out, answers with a non-success
   status or is malformed contributes no item, and the run ends as it would
   had that source served an empty feed, the other sources' results being
   what they are. *)
C8_SourceIsolation ==
    \A c \in Requests :
        /\ \A i \in arrived[c] : SourceFailed(responses[c][i]) => results[c][i] = << >>
        /\ Completed(c) =>
               \A i \in FeedIdx : SourceFailed(responses[c][i]) =>
                   Outcome(c) = Aggregate([results[c] EXCEPT ![i] =
                       FetchSingleFeed(RSS_FEEDS[i], OkFeed(<< >>), clock)])

\* a malformed feed carrying entries next to a source that delivers
C8_Witness ==
    \E c \in Requests :
        /\ pc[c] = "returned"
        /\ responses[c][1].kind = "bozo"
        /\ responses[c][1].entries # << >>
        /\ responses[c][2].kind = "ok"
        /\ Len(fnret[c]) >= 2

(* C9: timestamp fallback.  Every item the source fetcher produces carries a
   timestamp, never None: the published one if present and valid, else the
   updated one if present and valid, else the current time. *)
C9_TimestampFallback ==
    \A c \in Requests : \A i \in arrived[c] :
        responses[c][i].kind = "ok" =>
            LET kept == SelectSeq(responses[c][i].entries, EntryKept) IN
            \A k \in 1..Len(results[c][i]) :
                /\ results[c][i][k].published_at # None
                /\ k <= Len(kept) =>
                       results[c][i][k].published_at = ClaimedTimestamp(kept[k], clock)

(* C10: entry filtering.  A feed's result has one item for each entry whose
   title and link both hold text after trimming, in entry order, and none
   for the others; every item of a result, of a returned list and of the
   cache has a non-empty headline and a non-empty url. *)
C10_EntryFiltering ==
    /\ \A k \in 1..Len(NEWS_CACHE.items) : WellFormed(NEWS_CACHE.items[k])
    /\ \A c \in Requests :
           /\ \A k \in 1..Len(fnret[c]) : WellFormed(fnret[c][k])
           /\ \A i \in arrived[c] :
                  /\ \A k \in 1..Len(results[c][i]) : WellFormed(results[c][i][k])
                  /\ responses[c][i].kind = "ok" =>
                         LET want == SelectSeq(responses[c][i].entries, HasTitleAndLink) IN
                         /\ Len(results[c][i]) = Len(want)
                         /\ \A k \in 1..Len(want) :
                                /\ results[c][i][k].headline = Strip(want[k].title[1])
                                /\ results[c][i][k].url = Strip(want[k].link[1])

\* a feed whose first entry has a blank title: the entry after it is kept
C10_Witness ==
    \E c \in Requests :
        /\ 1 \in arrived[c] /\ 2 \in arrived[c]
        /\ responses[c][1] = OkFeed(<<E6, E1>>)
        /\ responses[c][2] = OkFeed(<<E7, E4>>)
        /\ UrlsOf(results[c][1]) = << <<"u1">> >>
        /\ UrlsOf(results[c][2]) = << <<"u3">> >>

----------------------------------------------------------------------------
(* Vocabulary of the cache properties *)

\* the step is request c issuing GET /news with force
GetForce(c) == \E l \in Limits : Call(c, TRUE, l)

\* Stale as the cache's states are defined: never populated, or TTL or more
\* since the stored timestamp
Stale == completedAt = None \/ clock - NEWS_CACHE.timestamp >= CACHE_TTL_SECONDS

\* the step is the return of request c's successful refresh
RefreshReturns(c) == pc[c] = "store" /\ pc'[c] = "returned"

(* C11, as stated: every forced get and every get issued while the entry is
   stale or never populated invokes the aggregation; when it succeeds the
   stored entry is the list the call returns, stamped with the time of the
   replacement, and the cache is Fresh as the call returns. *)
C11_RefreshStampsReplacement ==
    [][\A c \in Requests :
          /\ (GetForce(c) \/ (GetNoForce(c) /\ Stale)) => InFlight(c)'
          /\ RefreshReturns(c) =>
                 /\ NEWS_CACHE'.items = fnret'[c]
                 /\ NEWS_CACHE'.timestamp = clock'
                 /\ clock' - NEWS_CACHE'.timestamp < CACHE_TTL_SECONDS]_vars

(* C11, amended: every forced get and every get issued while the entry is
   stale or never populated invokes the aggregation; when it succeeds the
   stored entry is the list the call returns, stamped with the time the call
   was issued, and as the call returns a get(force=false) would be served
   from it exactly if the list is non-empty and less than TTL has passed
   since the call was issued. *)
C11_RefreshStampsCallTime ==
    [][\A c \in Requests :
          /\ (GetForce(c) \/ (GetNoForce(c) /\ Stale)) => InFlight(c)'
          /\ RefreshReturns(c) =>
                 /\ NEWS_CACHE' = [items |-> fnret'[c], timestamp |-> now[c]]
                 /\ http'[c] = GetNews(fnret'[c], limit[c])
                 /\ CacheFresh(FALSE, clock)' <=>
                        (fnret'[c] # << >> /\ clock' - now[c] < CACHE_TTL_SECONDS)]_vars

\* a refresh that returned a list after the clock had moved on from its start
C11_Witness ==
    \E c \in Requests :
        /\ pc[c] = "returned"
        /\ arrived[c] = FeedIdx
        /\ fnret[c] # << >>
        /\ now[c] < clock
        /\ NEWS_CACHE = [items |-> fnret[c], timestamp |-> now[c]]

(* C12: atomic replacement.  Under any interleaving of a refresh with a
   concurrent /health call, the pair the call reports (number of items,
   timestamp) is a pair that was stored at some moment of the call: the old
   pair or a new one, never the items of one with the timestamp of another. *)
C12_AtomicReplacement ==
    health.pc = "done" =>
        \E v \in health.window :
            v.n = health.cached_items /\ v.ts = health.ts

(* C13: limit.  A /news response that is not an error carries, for limit <= 0,
   the whole list fetch_news returned (at most MAX_ITEMS items) and, for
   limit > 0, exactly its first min(limit, length) items in the same order;
   count is the number of items in the response. *)
C13_Limit ==
    \A c \in Requests : pc[c] = "returned" =>
        LET full == fnret[c]
            resp == http[c] IN
        /\ resp.status = 200
        /\ resp.count = Len(resp.items)
        /\ Len(full) <= MAX_ITEMS
        /\ limit[c] <= 0 => resp.items = full
        /\ limit[c] > 0 =>
               /\ Len(resp.items) = Min(limit[c], Len(full))
               /\ \A k \in 1..Len(resp.items) : resp.items[k] = full[k]

\* a response cut to two of the three items of the list
C13_Witness ==
    \E c \in Requests :
        /\ pc[c] = "returned"
        /\ limit[c] = 2
        /\ Len(fnret[c]) = 3
        /\ http[c].count = 2
        /\ http[c].items = <<fnret[c][1], fnret[c][2]>>

\* the step is one of the steps of a /health call
HealthStep ==
    HealthReadItems \/ HealthTestTimestamp \/ HealthReadTimestamp \/ HealthReset

(* C14: health.  The cached_items a /health call reports is the number of
   items stored when the call reads the list; the call reports a null age
   exactly if no aggregation has completed a write of the entry when the
   call tests the timestamp; no step of a /health call changes the cache. *)
C14_Health ==
    [][/\ HealthReadItems => health'.cached_items = Len(NEWS_CACHE.items)
       /\ (health.pc # "done" /\ health'.pc = "done") =>
              /\ health'.age = None <=> completedAt = None
              /\ health'.age # None =>
                     health'.age = Some(clock - NEWS_CACHE.timestamp)
       /\ HealthStep => UNCHANGED <<NEWS_CACHE, committed, completedAt>>]_vars

\* a /health answer after an aggregation that stored an empty list: no items,
\* and an age
C14_Witness ==
    /\ health.pc = "done"
    /\ health.age # None
    /\ health.cached_items = 0
    /\ NEWS_CACHE.items = << >>
    /\ completedAt # None

(* C15: stale-but-available over empty.  Once the stored list is non-empty,
   no step of a get call, refreshes in which every source fails included,
   leaves the cache holding an empty list or answers with an empty list. *)
C15_StaleButAvailable ==
    [][NEWS_CACHE.items # << >> =>
          /\ NEWS_CACHE'.items # << >>
          /\ \A c \in Requests :
                 (pc[c] # "returned" /\ pc'[c] = "returned") =>
                     http'[c].items # << >>]_vars

(* C16: race-insensitive output.  Two aggregation runs whose sources
   returned the same per-source results end with the same outcome, the same
   list in the same order, whatever the order in which the per-source
   fetches completed in each. *)
C16_RaceInsensitive ==
    \A c1, c2 \in Requests :
        (Completed(c1) /\ Completed(c2) /\ results[c1] = results[c2]) =>
            Outcome(c1) = Outcome(c2)

\* two runs with the same results of both sources, the same link served by
\* both, whose fetches completed in different orders
C16_Witness ==
    \E c1, c2 \in Requests :
        /\ Completed(c1) /\ Completed(c2)
        /\ results[c1] = results[c2]
        /\ order[c1] # order[c2]
        /\ \A i \in FeedIdx : results[c1][i] # << >>
        /\ Urls(c1) # {}
        /\ fnret[c1] # << >>
        /\ fnret[c1] = fnret[c2]

(* C17: the cache never moves backwards.  Under any interleaving of
   concurrent fetch_news calls, no step lowers the stored timestamp, and no
   refresh writes its list over the entry of a refresh that began later. *)
C17_NeverBackwards ==
    [][/\ NEWS_CACHE'.timestamp >= NEWS_CACHE.timestamp
       /\ \A c \in Requests :
              (pc[c] = "gather" /\ pc'[c] = "store") =>
                  now[c] >= NEWS_CACHE.timestamp]_vars

(* C18: every get returns.  When every source fetch completes or hits its
   timeout, every fetch_news call that started its fan-out eventually
   returns; a source that timed out contributes the empty list, and the
   results of its siblings are collected all the same. *)
C18_EveryGetReturns ==
    /\ \A c \in AggCallers : (pc[c] = "gather") ~> (pc[c] = "returned")
    /\ [](\A c \in Requests : \A i \in arrived[c] :
              responses[c][i].kind = "timeout" => results[c][i] = << >>)

(* C19: read operations leave the cache unchanged.  A get(force=false)
   served from a fresh entry, whatever its limit, changes neither the stored
   items nor the stored timestamp; the limit cuts the response only, so a
   call with limit 0 served from the entry returns the whole list that the
   last refresh stored. *)
C19_ReadsLeaveCache ==
    [][\A c \in Requests : \A l \in SeqLimits :
          (Call(c, FALSE, l) /\ CacheFresh(FALSE, clock)) =>
              /\ NEWS_CACHE' = NEWS_CACHE
              /\ NEWS_CACHE' = committed
              /\ http'[c] = GetNews(committed.items, l)
              /\ l = 0 => http'[c].items = committed.items]_vars

\* a get with limit 1 answered from a stored list of more than one item, the
\* stored entry being the one the last refresh wrote
C19_Witness ==
    \E c \in Requests :
        /\ pc[c] = "returned"
        /\ arrived[c] = {}
        /\ limit[c] = 1
        /\ Len(http[c].items) = 1
        /\ Len(NEWS_CACHE.items) >= 2
        /\ NEWS_CACHE = committed

====
